---- MODULE Spec2Model ----
(***************************************************************************)
(* barney.ci/go-store: the atomic store engine (Load, Store, LoadAndStore  *)
(* of store.go, the variant whose canary is the file identity) on a POSIX  *)
(* file system with whole-file advisory locks (flock).                     *)
(*                                                                         *)
(* A process is one caller of the library.  Every action is one system     *)
(* call of the code together with the local computation around it, so     *)
(* that all interleavings of concurrent callers at system call            *)
(* granularity are explored.                                               *)
(*                                                                         *)
(* File system: a file is an identity (inode number, never 0) with a byte  *)
(* content; the two names the code uses are `path` and `path + ".lock"`.   *)
(* A created file gets an identity that no other file has or had (spec.md  *)
(* section 3: the canary "must uniquely identify the on-disk object").     *)
(***************************************************************************)
EXTENDS Integers, Sequences, FiniteSets, TLC

\* ------------------------------------------------------------------ bounds
NumProcs == 2          \* concurrent callers under Spec
MaxCalls == 2          \* calls of Load/Store/LoadAndStore made in all under Spec
MaxFaults == 1         \* failed system calls, crashes and cancellations under Spec
NumWriters == 4        \* concurrent LoadAndStore calls under SpecStress
NumHandles == 2        \* open handles of the one file under SpecLock and SpecIntr
MaxSpurious == 1       \* unrelated interrupts of one blocking raw lock under SpecIntr

\* ------------------------------------------------------------------- codec
\* encoding/json of an int, as the tests inject it: the decimal digits (ASCII)
\* followed by a line feed (Encoder.Encode appends "\n").
RECURSIVE Digits(_)
Digits(n) == IF n < 10 THEN <<48 + n>> ELSE Append(Digits(n \div 10), 48 + (n % 10))

\* An encoder that keeps the last digit only.
EncodeLastDigit(v) == <<48 + (v % 10), 10>>

Encode(v) == Digits(v) \o <<10>>

IsDigit(b) == b >= 48 /\ b <= 57
IsSpace(b) == b = 10 \/ b = 32 \/ b = 9 \/ b = 13

RECURSIVE SkipSpace(_)
SkipSpace(bytes) ==
  IF bytes # <<>> /\ IsSpace(Head(bytes)) THEN SkipSpace(Tail(bytes)) ELSE bytes

RECURSIVE NumberOf(_, _)
NumberOf(bytes, acc) ==
  IF bytes # <<>> /\ IsDigit(Head(bytes))
  THEN NumberOf(Tail(bytes), 10 * acc + (Head(bytes) - 48))
  ELSE acc

\* Decoder.Decode into *int: skips white space, fails on end of input or on a
\* byte that starts no number, else reads the number up to the first byte that
\* ends it (a leading 0 is a whole number).  On failure the target keeps its
\* value (the zero value in tryLoadAndStore).
Decode(bytes) ==
  LET b == SkipSpace(bytes) IN
  IF b = <<>> \/ ~IsDigit(Head(b)) THEN [ok |-> FALSE, val |-> 0]
  ELSE IF Head(b) = 48 THEN [ok |-> TRUE, val |-> 0]
  ELSE [ok |-> TRUE, val |-> NumberOf(b, 0)]

\* write(2) of one byte at offset off (1-based index off + 1) of a file.
WriteAt(content, off, b) ==
  IF off < Len(content)
  THEN [content EXCEPT ![off + 1] = b]
  ELSE Append(content, b)

\* ------------------------------------------------------------------- state
VARIABLES
  path,       \* identity of the file named path (0: no such file)
  lockp,      \* identity of the file named path + ".lock" (0: no such file)
  data,       \* identity -> content (a sequence of bytes)
  nextIno,    \* the next identity the file system hands out
  fd,         \* per process: the file its open descriptor refers to (0: none)
  lk,         \* per process: the flock state of that descriptor
  pc,         \* per process: the next step
  op,         \* per process: the public call in progress
  fn,         \* per process: the callback of LoadAndStore
  val,        \* per process: the value (*v of Load/Store, value of tryLoadAndStore)
  canary,     \* per process: the canary (<<>> is nil, else <<identity>>)
  newCanary,  \* per process: Store's local newCanary (-1: not read yet)
  wpos,       \* per process: offset of the sidecar descriptor
  lerr,       \* per process: what Load returned
  serr,       \* per process: what Store returned
  ret,        \* per process: what the public call returned
  cancelled,  \* per process: its context is done
  crashed,    \* per process: it died (pc stays where it died)
  events,     \* failures, crashes and cancellations so far (bounded by MaxFaults)
  cbArg,      \* per process: what the callback received in this iteration
  calls,      \* public calls made so far (bounded by MaxCalls)
  renames,    \* history: renames onto path completed so far
  verAtLoad,  \* history: value of renames when this call's Load opened path
  touched,    \* history: this call's own steps changed the file named path
  lastStored, \* history: the value of the last completed rename
  initDest,   \* history: the content the file named path had at the start
  goos,       \* lock engine: the platform the build is for
  held,       \* lock engine, per handle: the locks the handle holds on the file
  hwait,      \* lock engine, per handle: the mode its blocking raw lock waits for ("no": none)
  hop,        \* lock engine, per handle: the last public call made on it
  hres,       \* lock engine, per handle: what that call returned ("none": it has not)
  hprev,      \* lock engine, history: the locks the handle held when that call was made
  il          \* interruptibleLock: the frame of the blocking call in flight (see IdleFrame)

fsVars == <<path, lockp, data, nextIno, fd, lk>>
callVars == <<op, ret, calls>>
tryVars == <<fn, val, canary, lerr, cbArg, verAtLoad>>
storeVars == <<newCanary, wpos, serr, touched>>
envVars == <<cancelled, crashed, events>>
lockVars == <<goos, held, hwait, hop, hres, hprev>>
\* What no step of the store engine changes.
intrVars == <<il>>
frameVars == <<initDest, lockVars, intrVars>>
histVars == <<renames, lastStored, frameVars>>
vars == <<fsVars, pc, callVars, tryVars, storeVars, envVars, histVars>>

Procs == DOMAIN pc

\* The process is alive and its next step is at.
At(p, at) == ~crashed[p] /\ pc[p] = at

\* canary.(uint64) with the ok result dropped: nil yields 0.
UintOf(c) == IF c = <<>> THEN 0 ELSE c[1]

\* A file system whose locks exclude nobody.
NoExclusion(p, f) == TRUE

\* flock(2): an exclusive lock needs that no other descriptor holds any lock on
\* the file, a shared lock that none holds an exclusive one.
ExAvailable(p, f) == \A q \in Procs \ {p} : ~(fd[q] = f /\ lk[q] # "un")
ShAvailable(p, f) == \A q \in Procs \ {p} : ~(fd[q] = f /\ lk[q] = "ex")

\* lstatIno(nil, name): the identity the name refers to; NotExist gives 0.
LstatIno(name) == name

\* The file named path is another file, or the same file with another content,
\* after the step.
DestChanged == path' # path \/ (path # 0 /\ data'[path] # data[path])

Touch(p) == touched' = [touched EXCEPT ![p] = @ \/ DestChanged]

\* ------------------------------------------------------------ public calls
\* The entry of Store: its locals.
EnterStore(p) ==
  /\ newCanary' = [newCanary EXCEPT ![p] = -1]
  /\ wpos' = [wpos EXCEPT ![p] = 0]
  /\ serr' = [serr EXCEPT ![p] = "nil"]
  /\ touched' = [touched EXCEPT ![p] = FALSE]

\* The public call returns e: the caller keeps the error and, of a Load, the
\* canary; the locals of the call are gone, and so is its context (the next
\* call gets its own).
ReturnToCaller(p, e) ==
  /\ pc' = [pc EXCEPT ![p] = "idle"]
  /\ ret' = [ret EXCEPT ![p] = e]
  /\ fn' = [fn EXCEPT ![p] = "inc"]
  /\ val' = [val EXCEPT ![p] = 0]
  /\ canary' = [canary EXCEPT ![p] = IF op[p] = "las" THEN <<>> ELSE @]
  /\ lerr' = [lerr EXCEPT ![p] = "nil"]
  /\ cbArg' = [cbArg EXCEPT ![p] = <<>>]
  /\ verAtLoad' = [verAtLoad EXCEPT ![p] = 0]
  /\ cancelled' = [cancelled EXCEPT ![p] = FALSE]
  /\ UNCHANGED <<op, calls>>

\* The values direct callers store.
StoreValues == {12}
Callbacks == {"inc", "fail"}

\* The callers are alike: they are numbered in the order of their first call.
InTurn(p) == \A q \in Procs : q < p => op[q] # "none"

CallLoad(p) ==
  /\ At(p, "idle") /\ calls < MaxCalls /\ InTurn(p)
  /\ calls' = calls + 1
  /\ pc' = [pc EXCEPT ![p] = "l_open"]
  /\ op' = [op EXCEPT ![p] = "load"]
  /\ ret' = [ret EXCEPT ![p] = "none"]
  /\ canary' = [canary EXCEPT ![p] = <<>>]
  /\ UNCHANGED <<fsVars, fn, val, lerr, cbArg, verAtLoad, storeVars, envVars, histVars>>

\* Store(ctx, path, mode, &v, c): c is nil or the canary the caller's last Load gave.
CallStore(p) ==
  /\ At(p, "idle") /\ calls < MaxCalls /\ InTurn(p)
  /\ \E c \in {<<>>, canary[p]} : canary' = [canary EXCEPT ![p] = c]
  /\ \E v \in StoreValues : val' = [val EXCEPT ![p] = v]
  /\ calls' = calls + 1
  /\ pc' = [pc EXCEPT ![p] = "s_open"]
  /\ op' = [op EXCEPT ![p] = "store"]
  /\ ret' = [ret EXCEPT ![p] = "none"]
  /\ EnterStore(p)
  /\ UNCHANGED <<fsVars, fn, lerr, cbArg, verAtLoad, envVars, histVars>>

\* LoadAndStore(ctx, path, mode, fn): the first iteration starts (var value T).
CallLoadAndStore(p) ==
  /\ At(p, "idle") /\ calls < MaxCalls /\ InTurn(p)
  /\ \E f \in Callbacks : fn' = [fn EXCEPT ![p] = f]
  /\ calls' = calls + 1
  /\ pc' = [pc EXCEPT ![p] = "l_open"]
  /\ op' = [op EXCEPT ![p] = "las"]
  /\ ret' = [ret EXCEPT ![p] = "none"]
  /\ canary' = [canary EXCEPT ![p] = <<>>]
  /\ UNCHANGED <<fsVars, val, lerr, cbArg, verAtLoad, storeVars, envVars, histVars>>

\* -------------------------------------------------------------------- Load
\* A Load whose early error ends the call, LoadAndStore's too.
LoadReturnsToCaller(p, e) == ReturnToCaller(p, e)

\* Load returns e before it opened anything: to the caller of Load, or on to
\* the callback of tryLoadAndStore.
LoadReturnsEarly(p, e) ==
  IF op[p] = "las"
  THEN /\ pc' = [pc EXCEPT ![p] = "cb"]
       /\ lerr' = [lerr EXCEPT ![p] = e]
       /\ verAtLoad' = [verAtLoad EXCEPT ![p] = renames]
       /\ UNCHANGED <<callVars, fn, val, canary, cbArg, cancelled>>
  ELSE ReturnToCaller(p, e)

\* The poll of ctx, then os.OpenFile(path, O_RDONLY).
LoadOpen(p) ==
  /\ At(p, "l_open")
  /\ IF cancelled[p] THEN LoadReturnsEarly(p, "Canceled") /\ UNCHANGED fd
     ELSE IF path = 0 THEN LoadReturnsEarly(p, "NotExist") /\ UNCHANGED fd
     ELSE /\ fd' = [fd EXCEPT ![p] = path]
          /\ pc' = [pc EXCEPT ![p] = "l_rlock"]
          /\ verAtLoad' = [verAtLoad EXCEPT ![p] = renames]
          /\ UNCHANGED <<callVars, fn, val, canary, lerr, cbArg, cancelled>>
  /\ UNCHANGED <<path, lockp, data, nextIno, lk, storeVars, crashed, events, histVars>>

\* RLock(ctx, rdf) acquires the shared lock.
LoadRLock(p) ==
  /\ At(p, "l_rlock")
  /\ ShAvailable(p, fd[p])
  /\ lk' = [lk EXCEPT ![p] = "sh"]
  /\ pc' = [pc EXCEPT ![p] = "l_decode"]
  /\ UNCHANGED <<path, lockp, data, nextIno, fd, callVars, tryVars, storeVars,
                 envVars, histVars>>

\* RLock(ctx, rdf) returns the cancellation error (ctx done before or while it waits).
LoadRLockCanceled(p) ==
  /\ At(p, "l_rlock")
  /\ cancelled[p]
  /\ lerr' = [lerr EXCEPT ![p] = "Canceled"]
  /\ pc' = [pc EXCEPT ![p] = "l_close"]
  /\ UNCHANGED <<fsVars, callVars, fn, val, canary, cbArg, verAtLoad, storeVars,
                 envVars, histVars>>

\* A Load without the second poll of ctx.
LoadDecodeNoPoll(p) ==
  /\ At(p, "l_decode")
  /\ LET d == Decode(data[fd[p]]) IN
     IF ~d.ok
     THEN /\ lerr' = [lerr EXCEPT ![p] = "DecodeErr"]
          /\ UNCHANGED <<val, canary>>
     ELSE /\ lerr' = [lerr EXCEPT ![p] = "nil"]
          /\ val' = [val EXCEPT ![p] = d.val]
          /\ canary' = [canary EXCEPT ![p] = <<fd[p]>>]
  /\ pc' = [pc EXCEPT ![p] = "l_close"]
  /\ UNCHANGED <<fsVars, callVars, fn, cbArg, verAtLoad, storeVars, envVars, histVars>>

\* The second poll of ctx, Decode(v) from rdf, then lstatIno(rdf, "").
LoadDecode(p) ==
  /\ At(p, "l_decode")
  /\ LET d == Decode(data[fd[p]]) IN
     IF cancelled[p]
     THEN /\ lerr' = [lerr EXCEPT ![p] = "Canceled"]
          /\ UNCHANGED <<val, canary>>
     ELSE IF ~d.ok
     THEN /\ lerr' = [lerr EXCEPT ![p] = "DecodeErr"]
          /\ UNCHANGED <<val, canary>>
     ELSE /\ lerr' = [lerr EXCEPT ![p] = "nil"]
          /\ val' = [val EXCEPT ![p] = d.val]
          /\ canary' = [canary EXCEPT ![p] = <<fd[p]>>]
  /\ pc' = [pc EXCEPT ![p] = "l_close"]
  /\ UNCHANGED <<fsVars, callVars, fn, cbArg, verAtLoad, storeVars, envVars, histVars>>

\* A Load that returns without the deferred rdf.Close().
LoadKeepsOpen(p) ==
  /\ At(p, "l_close")
  /\ IF op[p] = "las"
     THEN /\ pc' = [pc EXCEPT ![p] = "cb"]
          /\ UNCHANGED <<callVars, tryVars, cancelled>>
     ELSE ReturnToCaller(p, lerr[p])
  /\ UNCHANGED <<path, lockp, data, nextIno, fd, lk, storeVars, crashed, events,
                 histVars>>

\* The deferred rdf.Close(), which drops the lock, and the return of Load.
LoadClose(p) ==
  /\ At(p, "l_close")
  /\ fd' = [fd EXCEPT ![p] = 0]
  /\ lk' = [lk EXCEPT ![p] = "un"]
  /\ IF op[p] = "las"
     THEN /\ pc' = [pc EXCEPT ![p] = "cb"]
          /\ UNCHANGED <<callVars, tryVars, cancelled>>
     ELSE ReturnToCaller(p, lerr[p])
  /\ UNCHANGED <<path, lockp, data, nextIno, storeVars, crashed, events, histVars>>

\* ---------------------------------------------------------- LoadAndStore
\* A tryLoadAndStore that drops the error of the callback and stores.
CallbackErrorDropped(p) ==
  /\ At(p, "cb")
  /\ cbArg' = [cbArg EXCEPT ![p] = <<[val |-> val[p], err |-> lerr[p]]>>]
  /\ val' = [val EXCEPT ![p] = @ + 1]
  /\ pc' = [pc EXCEPT ![p] = "s_open"]
  /\ EnterStore(p)
  /\ UNCHANGED <<callVars, fn, canary, lerr, verAtLoad, cancelled>>
  /\ UNCHANGED <<fsVars, crashed, events, histVars>>

\* fn(ctx, &value, err): "inc" is the callback of the stress test (*val++,
\* return nil), "fail" returns an error, which tryLoadAndStore and LoadAndStore
\* return.  Else Store(ctx, path, mode, &value, canary) is entered.
Callback(p) ==
  /\ At(p, "cb")
  /\ IF fn[p] = "inc"
     THEN /\ cbArg' = [cbArg EXCEPT ![p] = <<[val |-> val[p], err |-> lerr[p]]>>]
          /\ val' = [val EXCEPT ![p] = @ + 1]
          /\ pc' = [pc EXCEPT ![p] = "s_open"]
          /\ EnterStore(p)
          /\ UNCHANGED <<callVars, fn, canary, lerr, verAtLoad, cancelled>>
     ELSE /\ ReturnToCaller(p, "FnErr")
          /\ UNCHANGED storeVars
  /\ UNCHANGED <<fsVars, crashed, events, histVars>>

\* -------------------------------------------------------------------- Store
\* A loop of LoadAndStore that goes on after a cancellation too.
StoreReturnsLooping(p, e) ==
  /\ newCanary' = [newCanary EXCEPT ![p] = -1]
  /\ wpos' = [wpos EXCEPT ![p] = 0]
  /\ serr' = [serr EXCEPT ![p] = "nil"]
  /\ UNCHANGED touched
  /\ IF op[p] = "las" /\ e \in {"ErrRetry", "Canceled"}
     THEN /\ pc' = [pc EXCEPT ![p] = "l_open"]
          /\ val' = [val EXCEPT ![p] = 0]
          /\ canary' = [canary EXCEPT ![p] = <<>>]
          /\ lerr' = [lerr EXCEPT ![p] = "nil"]
          /\ cbArg' = [cbArg EXCEPT ![p] = <<>>]
          /\ UNCHANGED <<callVars, fn, verAtLoad, cancelled>>
     ELSE ReturnToCaller(p, e)

\* A loop of LoadAndStore whose next iteration goes on with the value and the
\* canary of the aborted one.
StoreReturnsStale(p, e) ==
  /\ newCanary' = [newCanary EXCEPT ![p] = -1]
  /\ wpos' = [wpos EXCEPT ![p] = 0]
  /\ serr' = [serr EXCEPT ![p] = "nil"]
  /\ UNCHANGED touched
  /\ IF op[p] = "las" /\ e = "ErrRetry"
     THEN /\ pc' = [pc EXCEPT ![p] = "l_open"]
          /\ lerr' = [lerr EXCEPT ![p] = "nil"]
          /\ cbArg' = [cbArg EXCEPT ![p] = <<>>]
          /\ UNCHANGED <<callVars, fn, val, canary, verAtLoad, cancelled>>
     ELSE ReturnToCaller(p, e)

\* Store returns e: to the caller of Store, or to the loop of LoadAndStore,
\* which starts another iteration (var value T) on ErrRetry and on nothing else.
StoreReturns(p, e) ==
  /\ newCanary' = [newCanary EXCEPT ![p] = -1]
  /\ wpos' = [wpos EXCEPT ![p] = 0]
  /\ serr' = [serr EXCEPT ![p] = "nil"]
  /\ UNCHANGED touched
  /\ IF op[p] = "las" /\ e = "ErrRetry"
     THEN /\ pc' = [pc EXCEPT ![p] = "l_open"]
          /\ val' = [val EXCEPT ![p] = 0]
          /\ canary' = [canary EXCEPT ![p] = <<>>]
          /\ lerr' = [lerr EXCEPT ![p] = "nil"]
          /\ cbArg' = [cbArg EXCEPT ![p] = <<>>]
          /\ UNCHANGED <<callVars, fn, verAtLoad, cancelled>>
     ELSE ReturnToCaller(p, e)

\* The poll of ctx, then os.OpenFile(path+".lock", O_WRONLY|O_CREATE, mode).
StoreOpen(p) ==
  /\ At(p, "s_open")
  /\ IF cancelled[p]
     THEN /\ StoreReturns(p, "Canceled")
          /\ UNCHANGED <<lockp, data, nextIno, fd>>
     ELSE /\ IF lockp # 0
             THEN /\ fd' = [fd EXCEPT ![p] = lockp]
                  /\ UNCHANGED <<lockp, data, nextIno>>
             ELSE /\ fd' = [fd EXCEPT ![p] = nextIno]
                  /\ lockp' = nextIno
                  /\ data' = data @@ (nextIno :> <<>>)
                  /\ nextIno' = nextIno + 1
          /\ pc' = [pc EXCEPT ![p] = "s_lock"]
          /\ UNCHANGED <<callVars, tryVars, storeVars, cancelled>>
  /\ UNCHANGED <<path, lk, crashed, events, histVars>>

\* Lock(ctx, wf) acquires the exclusive lock.
StoreLock(p) ==
  /\ At(p, "s_lock")
  /\ ExAvailable(p, fd[p])
  /\ lk' = [lk EXCEPT ![p] = "ex"]
  /\ pc' = [pc EXCEPT ![p] = "s_canary"]
  /\ UNCHANGED <<path, lockp, data, nextIno, fd, callVars, tryVars, storeVars,
                 envVars, histVars>>

\* Lock(ctx, wf) returns the cancellation error.
StoreLockCanceled(p) ==
  /\ At(p, "s_lock")
  /\ cancelled[p]
  /\ serr' = [serr EXCEPT ![p] = "Canceled"]
  /\ pc' = [pc EXCEPT ![p] = "s_close"]
  /\ UNCHANGED <<fsVars, callVars, tryVars, newCanary, wpos, touched, envVars, histVars>>

\* A Store without the canary check (Store of the content-hash variant).
CanaryIgnored(new, old) == FALSE

\* A canary check that only a non-empty canary can fail.
CanaryMismatchNonEmpty(new, old) == old # 0 /\ new # old

\* newCanary != oldCanary, the comparison of the canary check.
CanaryMismatch(new, old) == new # old

\* The canary check: lstatIno(nil, path), NotExist read as 0, against the canary.
StoreCanary(p) ==
  /\ At(p, "s_canary")
  /\ newCanary' = [newCanary EXCEPT ![p] = LstatIno(path)]
  /\ IF CanaryMismatch(LstatIno(path), UintOf(canary[p]))
     THEN /\ serr' = [serr EXCEPT ![p] = "ErrRetry"]
          /\ pc' = [pc EXCEPT ![p] = "s_close"]
     ELSE /\ pc' = [pc EXCEPT ![p] = "s_deleted"]
          /\ UNCHANGED serr
  /\ UNCHANGED <<fsVars, callVars, tryVars, wpos, touched, envVars, histVars>>

\* deleted(f): the name is gone, or names another file than the descriptor.
Deleted(f) == LstatIno(lockp) = 0 \/ f # LstatIno(lockp)

StoreDeleted(p) ==
  /\ At(p, "s_deleted")
  /\ IF Deleted(fd[p])
     THEN /\ serr' = [serr EXCEPT ![p] = "ErrRetry"]
          /\ pc' = [pc EXCEPT ![p] = "s_close"]
     ELSE /\ pc' = [pc EXCEPT ![p] = "s_trunc"]
          /\ UNCHANGED serr
  /\ UNCHANGED <<fsVars, callVars, tryVars, newCanary, wpos, touched, envVars, histVars>>

\* The name of a writer that truncates the destination in place.
DestName == path

\* wf.Name(), the name os.Truncate is given: path + ".lock".
TruncateName == lockp

\* A Store that leaves in the sidecar what it finds there (no os.Truncate).
StoreNoTruncate(p) ==
  /\ At(p, "s_trunc")
  /\ pc' = [pc EXCEPT ![p] = "s_encode"]
  /\ UNCHANGED <<fsVars, callVars, tryVars, storeVars, envVars, histVars>>

\* os.Truncate(wf.Name(), 0): by name.
StoreTruncate(p) ==
  /\ At(p, "s_trunc")
  /\ IF TruncateName = 0
     THEN /\ serr' = [serr EXCEPT ![p] = "SyscallErr"]
          /\ pc' = [pc EXCEPT ![p] = "s_close"]
          /\ UNCHANGED data
     ELSE /\ data' = [data EXCEPT ![TruncateName] = <<>>]
          /\ pc' = [pc EXCEPT ![p] = "s_encode"]
          /\ UNCHANGED serr
  /\ UNCHANGED <<path, lockp, nextIno, fd, lk, callVars, tryVars, newCanary, wpos,
                 envVars, histVars>>
  /\ Touch(p)

\* Encode(v) to wf: the bytes go out through the descriptor, one write each.
StoreEncode(p) ==
  /\ At(p, "s_encode")
  /\ LET bytes == Encode(val[p]) IN
     /\ data' = [data EXCEPT ![fd[p]] = WriteAt(@, wpos[p], bytes[wpos[p] + 1])]
     /\ wpos' = [wpos EXCEPT ![p] = @ + 1]
     /\ pc' = [pc EXCEPT ![p] = IF wpos[p] + 1 = Len(bytes) THEN "s_rename" ELSE "s_encode"]
  /\ UNCHANGED <<path, lockp, nextIno, fd, lk, callVars, tryVars, newCanary, serr,
                 envVars, histVars>>
  /\ Touch(p)

\* A Store that copies the sidecar into the destination file, where there is
\* one, instead of renaming it.
StoreCopiesOver(p) ==
  /\ At(p, "s_rename")
  /\ IF lockp = 0
     THEN /\ serr' = [serr EXCEPT ![p] = "SyscallErr"]
          /\ UNCHANGED <<path, lockp, data, renames, lastStored>>
     ELSE /\ path' = IF path = 0 THEN lockp ELSE path
          /\ data' = IF path = 0 THEN data ELSE [data EXCEPT ![path] = data[lockp]]
          /\ lockp' = 0
          /\ renames' = renames + 1
          /\ lastStored' = val[p]
          /\ UNCHANGED serr
  /\ pc' = [pc EXCEPT ![p] = "s_close"]
  /\ UNCHANGED <<nextIno, fd, lk, callVars, tryVars, newCanary, wpos,
                 envVars, frameVars>>
  /\ Touch(p)

\* os.Rename(wf.Name(), path): by name, replacing the file named path.
StoreRename(p) ==
  /\ At(p, "s_rename")
  /\ IF lockp = 0
     THEN /\ serr' = [serr EXCEPT ![p] = "SyscallErr"]
          /\ UNCHANGED <<path, lockp, renames, lastStored>>
     ELSE /\ path' = lockp
          /\ lockp' = 0
          /\ renames' = renames + 1
          /\ lastStored' = val[p]
          /\ UNCHANGED serr
  /\ pc' = [pc EXCEPT ![p] = "s_close"]
  /\ UNCHANGED <<data, nextIno, fd, lk, callVars, tryVars, newCanary, wpos,
                 envVars, frameVars>>
  /\ Touch(p)

\* The deferred wf.Close(), which drops the lock, and the return of Store.
StoreClose(p) ==
  /\ At(p, "s_close")
  /\ fd' = [fd EXCEPT ![p] = 0]
  /\ lk' = [lk EXCEPT ![p] = "un"]
  /\ StoreReturns(p, serr[p])
  /\ UNCHANGED <<path, lockp, data, nextIno, crashed, events, histVars>>

\* ------------------------------------------------------------- environment
\* A system call of Load fails: the open (other than NotExist), the flock, or
\* the fstat behind lstatIno(rdf, "") after a decode that worked.  Load returns
\* the error, through the deferred Close once the file is open.
LoadFault(p) ==
  /\ events < MaxFaults
  /\ events' = events + 1
  /\ ~cancelled[p]
  /\ \/ /\ At(p, "l_open")
        /\ LoadReturnsEarly(p, "SyscallErr")
        /\ UNCHANGED <<fd, lk>>
     \/ /\ At(p, "l_rlock") \/ (At(p, "l_decode") /\ Decode(data[fd[p]]).ok)
        /\ fd' = [fd EXCEPT ![p] = 0]
        /\ lk' = [lk EXCEPT ![p] = "un"]
        /\ IF op[p] = "las"
           THEN /\ pc' = [pc EXCEPT ![p] = "cb"]
                /\ lerr' = [lerr EXCEPT ![p] = "SyscallErr"]
                /\ val' = [val EXCEPT ![p] = IF pc[p] = "l_decode"
                                             THEN Decode(data[fd[p]]).val ELSE @]
                /\ UNCHANGED <<callVars, fn, canary, cbArg, verAtLoad, cancelled>>
           ELSE ReturnToCaller(p, "SyscallErr")
  /\ UNCHANGED <<path, lockp, data, nextIno, storeVars, crashed, histVars>>

\* The error a failing step of Store makes Store return: that of the encoder,
\* or of the system call (an os.SyscallError or os.PathError).
StoreErrAt(at) == IF at = "s_encode" THEN "EncodeErr" ELSE "SyscallErr"

\* A step of Store fails and changes nothing: Store returns its error, through
\* the deferred Close once the sidecar is open.
StoreFault(p) ==
  /\ events < MaxFaults
  /\ events' = events + 1
  /\ ~crashed[p]
  /\ \/ /\ pc[p] = "s_open" /\ ~cancelled[p]
        /\ UNCHANGED <<fd, lk>>
     \/ /\ pc[p] \in {"s_lock", "s_canary", "s_deleted", "s_trunc", "s_encode", "s_rename"}
        /\ fd' = [fd EXCEPT ![p] = 0]
        /\ lk' = [lk EXCEPT ![p] = "un"]
  /\ StoreReturns(p, StoreErrAt(pc[p]))
  /\ UNCHANGED <<path, lockp, data, nextIno, crashed, histVars>>

\* The writer dies once its sidecar is open and before its rename is done: the
\* kernel closes its descriptor, which drops its lock; nothing else is undone.
\* (Its locals die with it; pc and touched stay for the record.)
Crash(p) ==
  /\ events < MaxFaults
  /\ events' = events + 1
  /\ ~crashed[p]
  /\ pc[p] \in {"s_lock", "s_canary", "s_deleted", "s_trunc", "s_encode", "s_rename"}
  /\ crashed' = [crashed EXCEPT ![p] = TRUE]
  /\ fd' = [fd EXCEPT ![p] = 0]
  /\ lk' = [lk EXCEPT ![p] = "un"]
  /\ fn' = [fn EXCEPT ![p] = "inc"]
  /\ val' = [val EXCEPT ![p] = 0]
  /\ canary' = [canary EXCEPT ![p] = <<>>]
  /\ lerr' = [lerr EXCEPT ![p] = "nil"]
  /\ cbArg' = [cbArg EXCEPT ![p] = <<>>]
  /\ verAtLoad' = [verAtLoad EXCEPT ![p] = 0]
  /\ newCanary' = [newCanary EXCEPT ![p] = -1]
  /\ wpos' = [wpos EXCEPT ![p] = 0]
  /\ UNCHANGED <<path, lockp, data, nextIno, pc, callVars, serr, touched,
                 cancelled, histVars>>

\* The caller's context is cancelled while a call runs.  The code looks at the
\* context at the polls of Load and Store and inside RLock and Lock: a
\* cancellation at any other moment is the same as one at the next of these.
Cancel(p) ==
  /\ events < MaxFaults
  /\ events' = events + 1
  /\ ~crashed[p]
  /\ pc[p] \in {"l_open", "l_rlock", "l_decode", "s_open", "s_lock"}
  /\ ~cancelled[p]
  /\ cancelled' = [cancelled EXCEPT ![p] = TRUE]
  /\ UNCHANGED <<fsVars, pc, callVars, tryVars, storeVars, crashed, histVars>>

\* ------------------------------------------------------------- lock engine
\* lock.go and the platform files: Lock, RLock, TryLock, TryRLock and Unlock on
\* the handles (open file descriptions) of one file.  A handle holds a set of
\* locks: at most one under flock(2); LockFileEx adds a lock to those the handle
\* has, and UnlockFileEx takes one away.
Handles == DOMAIN held

Platforms == {"linux", "darwin", "windows"}

\* The store engine when SpecLock runs: no caller, no file.
storeAll == <<fsVars, pc, callVars, tryVars, storeVars, envVars, renames, lastStored, initDest>>

\* The frame of a blocking call, none in flight.
\*   ipc         where the main path is
\*   wpc         where the watcher goroutine is ("none": not started)
\*   bpc         where the background goroutine of the fallback is
\*   ctxDone     the call's context is cancelled
\*   ctxAtCall   history: it was when the call was made
\*   ierr        the error the main path returns with, its defers still to run
\*   done, canceldone   the channels: "none", "open" or "closed"
\*   cancelchan  the channel: "none", "empty" or "full"
\*   pinned      runtime.LockOSThread is in force
\*   thread      the thread token: "none", "open" or "closed"
\*   rawLocks    history: calls of lock(f, flags) made by this call
\*   spurious    unrelated interrupts this call had (bounded by MaxSpurious)
\*   interrupts  history: calls of lockInterrupt made by this call's watcher
\*   panicked    the watcher panicked: the process is gone
IdleFrame ==
  [ipc |-> "idle", wpc |-> "none", bpc |-> "none", ctxDone |-> FALSE,
   ctxAtCall |-> FALSE, ierr |-> "none", done |-> "none", canceldone |-> "none",
   cancelchan |-> "none", pinned |-> FALSE, thread |-> "none", rawLocks |-> 0,
   spurious |-> 0, interrupts |-> 0, panicked |-> FALSE]

\* No blocking call is in flight.
NoCall == il = IdleFrame

\* The lock engine when the store engine runs: no handle.
NoHandles ==
  /\ goos = "linux"
  /\ held = <<>>
  /\ hwait = <<>>
  /\ hop = <<>>
  /\ hres = <<>>
  /\ hprev = <<>>
  /\ NoCall

\* unlock(f): flock(LOCK_UN) leaves the handle without lock; UnlockFileEx drops
\* one lock of the handle, the exclusive one first.
RawUnlock(os, hd) ==
  IF os = "windows" THEN (IF "ex" \in hd THEN hd \ {"ex"} ELSE {}) ELSE {}

\* A build for Windows whose preLock does nothing.
PreLockNothing(os, hd) == hd

\* preLock(f, flags): unlocks on Windows, does nothing elsewhere.
PreLock(os, hd) == IF os = "windows" THEN RawUnlock(os, hd) ELSE hd

\* A kernel for which two shared locks exclude each other.
ConflictAny(all, h, mode) == \E g \in DOMAIN all \ {h} : all[g] # {}

\* A kernel that grants every lock.
ConflictNone(all, h, mode) == FALSE

\* The raw lock of mode on handle h cannot be granted now: another handle holds
\* an exclusive lock, or any lock when the request is exclusive.
Conflict(all, h, mode) ==
  \E g \in DOMAIN all \ {h} : all[g] # {} /\ (mode = "ex" \/ "ex" \in all[g])

\* The locks of the handle once the raw lock is granted: flock converts the
\* lock of the handle, LockFileEx adds one.
Granted(os, hd, mode) == IF os = "windows" THEN hd \cup {mode} ELSE {mode}

\* The locks the handle may be left with when a raw lock that would convert its
\* lock is not granted at once: flock takes the old lock away before it looks
\* for conflicts on some kernels and keeps it on others.
LeftUngranted(os, hd, mode) ==
  IF os = "windows" \/ hd = {} \/ hd = {mode} THEN {hd} ELSE {hd, {}}

\* interruptibleLock without lockBlock (the context is context.Background()):
\* preLock, then one raw lock that does not wait.
TryAcquire(h, mode, name) ==
  /\ hwait[h] = "no"
  /\ hop' = [hop EXCEPT ![h] = name]
  /\ hprev' = [hprev EXCEPT ![h] = held[h]]
  /\ LET pre == PreLock(goos, held[h])
         all == [held EXCEPT ![h] = pre]
     IN IF Conflict(all, h, mode)
        THEN /\ hres' = [hres EXCEPT ![h] = "WouldBlock"]
             /\ \E left \in LeftUngranted(goos, pre, mode) :
                  held' = [held EXCEPT ![h] = left]
        ELSE /\ hres' = [hres EXCEPT ![h] = "nil"]
             /\ held' = [held EXCEPT ![h] = Granted(goos, pre, mode)]
  /\ UNCHANGED <<goos, hwait, storeAll, intrVars>>

TryLock(h) == TryAcquire(h, "ex", "TryLock")

TryRLock(h) == TryAcquire(h, "sh", "TryRLock")

\* An unlock that leaves the lock where it is.
UnlockNothing(h) ==
  /\ hwait[h] = "no"
  /\ hop' = [hop EXCEPT ![h] = "Unlock"]
  /\ hprev' = [hprev EXCEPT ![h] = held[h]]
  /\ hres' = [hres EXCEPT ![h] = "nil"]
  /\ UNCHANGED <<goos, held, hwait, storeAll, intrVars>>

Unlock(h) ==
  /\ hwait[h] = "no"
  /\ hop' = [hop EXCEPT ![h] = "Unlock"]
  /\ hprev' = [hprev EXCEPT ![h] = held[h]]
  /\ hres' = [hres EXCEPT ![h] = "nil"]
  /\ held' = [held EXCEPT ![h] = RawUnlock(goos, @)]
  /\ UNCHANGED <<goos, hwait, storeAll, intrVars>>

\* interruptibleLock with lockBlock, up to the first raw lock: preLock, the
\* poll of ctx (done: the call returns its error), then the raw lock, which is
\* granted or starts to wait.
Acquire(h, mode, name) ==
  /\ hwait[h] = "no"
  /\ hop' = [hop EXCEPT ![h] = name]
  /\ hprev' = [hprev EXCEPT ![h] = held[h]]
  /\ LET pre == PreLock(goos, held[h])
         all == [held EXCEPT ![h] = pre]
     IN \/ /\ hres' = [hres EXCEPT ![h] = "Canceled"]
           /\ held' = all
           /\ UNCHANGED hwait
        \/ /\ ~Conflict(all, h, mode)
           /\ hres' = [hres EXCEPT ![h] = "nil"]
           /\ held' = [held EXCEPT ![h] = Granted(goos, pre, mode)]
           /\ UNCHANGED hwait
        \/ /\ Conflict(all, h, mode)
           /\ hres' = [hres EXCEPT ![h] = "none"]
           /\ hwait' = [hwait EXCEPT ![h] = mode]
           /\ \E left \in LeftUngranted(goos, pre, mode) :
                held' = [held EXCEPT ![h] = left]
  /\ UNCHANGED <<goos, storeAll, intrVars>>

Lock(h) == Acquire(h, "ex", "Lock")

RLock(h) == Acquire(h, "sh", "RLock")

\* The raw lock that waited is granted.  Where the call gave up already (the
\* fallback without interruptible locks) the lock is taken all the same, behind
\* the back of the caller.
LockGranted(h) ==
  /\ hwait[h] # "no"
  /\ ~Conflict(held, h, hwait[h])
  /\ held' = [held EXCEPT ![h] = Granted(goos, @, hwait[h])]
  /\ hwait' = [hwait EXCEPT ![h] = "no"]
  /\ hres' = [hres EXCEPT ![h] = IF @ = "none" THEN "nil" ELSE @]
  /\ UNCHANGED <<goos, hop, hprev, storeAll, intrVars>>

\* ctx is done while the raw lock waits: the call returns the error of ctx.
\* With interruptible locks the wait is over; without, the raw lock goes on
\* waiting in its goroutine.
LockCanceled(h) ==
  /\ hwait[h] # "no"
  /\ hres[h] = "none"
  /\ hres' = [hres EXCEPT ![h] = "Canceled"]
  /\ hwait' = [hwait EXCEPT ![h] = IF goos = "darwin" THEN @ ELSE "no"]
  /\ UNCHANGED <<goos, held, hop, hprev, storeAll, intrVars>>

\* ------------------------------------------------------- raw lock failures
\* The public calls that pass lockBlock, and those that do not.
BlockingCalls == {"Lock", "RLock"}
TryCalls == {"TryLock", "TryRLock"}

\* What the lock system call answers when it fails for another reason than a
\* conflict or an interruption (a bad descriptor, no lock records left).
RawFailures(os) ==
  IF os = "windows" THEN {"ERROR_INVALID_HANDLE", "ERROR_NOT_ENOUGH_MEMORY"}
  ELSE {"EBADF", "ENOLCK"}

\* The switch of lock(ctx, f, flags) of lock_unix.go, the build for unix that
\* has the loop inside lock: EWOULDBLOCK and its default arm answer
\* ErrWouldBlock.
LockErrUnix(os, block, errno) ==
  CASE errno = "ok" -> "nil"
    [] errno = "EINTR" -> "Interrupted"
    [] OTHER -> "WouldBlock"

\* lock(f, flags): the error it makes of the answer of the system call.  The
\* darwin build has no arm for EINTR; the windows build reads
\* ERROR_LOCK_VIOLATION as ErrWouldBlock only without lockBlock.
LockErr(os, block, errno) ==
  CASE errno = "ok" -> "nil"
    [] os = "linux" /\ errno = "EINTR" -> "Interrupted"
    [] os = "windows" /\ errno = "ERROR_OPERATION_ABORTED" -> "Interrupted"
    [] os # "windows" /\ errno = "EWOULDBLOCK" -> "WouldBlock"
    [] os = "windows" /\ errno = "ERROR_LOCK_VIOLATION" /\ ~block -> "WouldBlock"
    [] OTHER -> errno

\* interruptibleLock whose raw lock fails with errno: preLock, the poll, lock,
\* and the default arm of the loop, which returns the error.
RawFault(h, name, errno) ==
  /\ hwait[h] = "no"
  /\ errno \in RawFailures(goos)
  /\ hop' = [hop EXCEPT ![h] = name]
  /\ hprev' = [hprev EXCEPT ![h] = held[h]]
  /\ hres' = [hres EXCEPT ![h] = LockErr(goos, name \in BlockingCalls, errno)]
  /\ held' = [held EXCEPT ![h] = PreLock(goos, @)]
  /\ UNCHANGED <<goos, hwait, storeAll, intrVars>>

LockFault(h) ==
  \E name \in BlockingCalls \cup TryCalls, errno \in RawFailures(goos) :
    RawFault(h, name, errno)

\* The same failure under lock_unix.go: no preLock, the poll, flock, and the
\* default arm of its loop.
RawFaultUnix(h, name, errno) ==
  /\ goos # "windows"
  /\ hwait[h] = "no"
  /\ errno \in RawFailures(goos)
  /\ hop' = [hop EXCEPT ![h] = name]
  /\ hprev' = [hprev EXCEPT ![h] = held[h]]
  /\ hres' = [hres EXCEPT ![h] = LockErrUnix(goos, name \in BlockingCalls, errno)]
  /\ UNCHANGED <<goos, held, hwait, storeAll, intrVars>>

LockFaultUnix(h) ==
  \E name \in BlockingCalls \cup TryCalls, errno \in RawFailures(goos) :
    RawFaultUnix(h, name, errno)

\* ------------------------------------------------- interruptibleLock, in steps
\* One blocking Lock or RLock call on the handle Caller, statement by statement:
\* the main path, the watcher goroutine it starts on the platforms with
\* interruptible locks, and the background goroutine of the fallback.  The
\* other handles make the non-blocking calls and Unlock.
Caller == 1

\* systemHasInterruptibleLocks
Interruptible(os) == os # "darwin"

\* The mode the call in flight asks for.
IMode == IF hop[Caller] = "Lock" THEN "ex" ELSE "sh"

\* return err, no defer left to run.
IReturn(e) == hres' = [hres EXCEPT ![Caller] = e]

\* The thread of the call, or of its background goroutine, is put to sleep by
\* the raw lock, or woken.
Sleeps(mode) == hwait' = [hwait EXCEPT ![Caller] = mode]

\* Lock(ctx, f) / RLock(ctx, f) is called, with a context that is cancelled
\* already or not: preLock(f, flags) runs first.
ICall(name) ==
  /\ il.ipc = "idle"
  /\ ~il.panicked
  /\ il.bpc \notin {"run", "wait"}
  /\ hwait[Caller] = "no"
  /\ \E c \in BOOLEAN :
       il' = [IdleFrame EXCEPT !.ipc = "poll", !.ctxDone = c, !.ctxAtCall = c]
  /\ hop' = [hop EXCEPT ![Caller] = name]
  /\ hprev' = [hprev EXCEPT ![Caller] = held[Caller]]
  /\ hres' = [hres EXCEPT ![Caller] = "none"]
  /\ held' = [held EXCEPT ![Caller] = PreLock(goos, held[Caller])]
  /\ UNCHANGED <<goos, hwait, storeAll>>

ILock == ICall("Lock")

IRLock == ICall("RLock")

\* The caller cancels the context of the call in flight.
ICancel ==
  /\ il.ipc # "idle"
  /\ ~il.panicked
  /\ ~il.ctxDone
  /\ il' = [il EXCEPT !.ctxDone = TRUE]
  /\ UNCHANGED <<lockVars, storeAll>>

\* A main path that does not look at the context before it goes on.
IPollIgnored ==
  /\ il.ipc = "poll"
  /\ ~il.panicked
  /\ il' = [il EXCEPT !.ipc = IF Interruptible(goos) THEN "spawn" ELSE "fallback"]
  /\ UNCHANGED <<lockVars, storeAll>>

\* select { case <-ctx.Done(): return ctx.Err(); default: }, then the choice
\* between the fallback and the interruptible path.
IPoll ==
  /\ il.ipc = "poll"
  /\ ~il.panicked
  /\ IF il.ctxDone
       THEN /\ il' = [il EXCEPT !.ipc = "idle"]
            /\ IReturn("Canceled")
       ELSE /\ il' = [il EXCEPT !.ipc = IF Interruptible(goos) THEN "spawn" ELSE "fallback"]
            /\ UNCHANGED hres
  /\ UNCHANGED <<goos, held, hwait, hop, hprev, storeAll>>

\* The three channels are made and the watcher goroutine is started.
ISpawn ==
  /\ il.ipc = "spawn"
  /\ ~il.panicked
  /\ il' = [il EXCEPT !.done = "open", !.canceldone = "open", !.cancelchan = "empty",
                      !.wpc = "recv", !.ipc = "pin"]
  /\ UNCHANGED <<lockVars, storeAll>>

\* runtime.LockOSThread()
IPin ==
  /\ il.ipc = "pin"
  /\ ~il.panicked
  /\ il' = [il EXCEPT !.pinned = TRUE, !.ipc = "thread"]
  /\ UNCHANGED <<lockVars, storeAll>>

\* thread, err := lockGetThread(); if err != nil { return err }.  Only
\* DuplicateHandle can fail; the one defer to run then is UnlockOSThread.
IGetThread ==
  /\ il.ipc = "thread"
  /\ ~il.panicked
  /\ \E ok \in (IF goos = "windows" THEN BOOLEAN ELSE {TRUE}) :
       il' = IF ok THEN [il EXCEPT !.thread = "open", !.ipc = "send"]
                   ELSE [il EXCEPT !.ierr = "SysErr", !.ipc = "unpin"]
  /\ UNCHANGED <<lockVars, storeAll>>

\* cancelchan <- func() error { return lockInterrupt(thread) }
ISend ==
  /\ il.ipc = "send"
  /\ ~il.panicked
  /\ il' = [il EXCEPT !.cancelchan = "full", !.ipc = "lock"]
  /\ UNCHANGED <<lockVars, storeAll>>

\* err := lock(f, flags), up to the point where the kernel grants the lock,
\* fails, or puts the thread to sleep.
IRawLock ==
  /\ il.ipc = "lock"
  /\ ~il.panicked
  /\ \/ /\ il' = [il EXCEPT !.rawLocks = @ + 1, !.ierr = "SysErr", !.ipc = "closedone"]
        /\ UNCHANGED <<held, hwait>>
     \/ /\ ~Conflict(held, Caller, IMode)
        /\ held' = [held EXCEPT ![Caller] = Granted(goos, held[Caller], IMode)]
        /\ il' = [il EXCEPT !.rawLocks = @ + 1, !.ierr = "nil", !.ipc = "closedone"]
        /\ UNCHANGED hwait
     \/ /\ Conflict(held, Caller, IMode)
        /\ \E left \in LeftUngranted(goos, held[Caller], IMode) :
             held' = [held EXCEPT ![Caller] = left]
        /\ Sleeps(IMode)
        /\ il' = [il EXCEPT !.rawLocks = @ + 1, !.ipc = "wait"]
  /\ UNCHANGED <<goos, hop, hres, hprev, storeAll>>

\* The kernel grants the lock the thread sleeps for: lock returns nil.
IKernelGrant ==
  /\ il.ipc = "wait"
  /\ ~il.panicked
  /\ ~Conflict(held, Caller, IMode)
  /\ held' = [held EXCEPT ![Caller] = Granted(goos, held[Caller], IMode)]
  /\ Sleeps("no")
  /\ il' = [il EXCEPT !.ierr = "nil", !.ipc = "closedone"]
  /\ UNCHANGED <<goos, hop, hres, hprev, storeAll>>

\* A signal of number signo that the watcher did not send (it is the Go
\* runtime's preemption signal too) reaches the sleeping thread: flock fails
\* with EINTR, lock returns errLockInterrupted.
ISpurious ==
  /\ il.ipc = "wait"
  /\ ~il.panicked
  /\ goos = "linux"
  /\ il.spurious < MaxSpurious
  /\ Sleeps("no")
  /\ il' = [il EXCEPT !.spurious = @ + 1, !.ipc = "intr"]
  /\ UNCHANGED <<goos, held, hop, hres, hprev, storeAll>>

\* A main path that returns the interruption to the caller.
IInterruptedSurfaces ==
  /\ il.ipc = "intr"
  /\ ~il.panicked
  /\ il' = [il EXCEPT !.ierr = IF il.ctxDone THEN "Canceled" ELSE "Interrupted",
                      !.ipc = "closedone"]
  /\ UNCHANGED <<lockVars, storeAll>>

\* case err == errLockInterrupted: return ctx.Err() when the context is
\* cancelled, else call lock again.
IInterrupted ==
  /\ il.ipc = "intr"
  /\ ~il.panicked
  /\ il' = IF il.ctxDone THEN [il EXCEPT !.ierr = "Canceled", !.ipc = "closedone"]
                         ELSE [il EXCEPT !.ipc = "lock"]
  /\ UNCHANGED <<lockVars, storeAll>>

\* defer: close(done)
ICloseDone ==
  /\ il.ipc = "closedone"
  /\ ~il.panicked
  /\ il' = [il EXCEPT !.done = "closed", !.ipc = "join"]
  /\ UNCHANGED <<lockVars, storeAll>>

\* A main path that does not wait for the watcher.
IJoinNoWait ==
  /\ il.ipc = "join"
  /\ ~il.panicked
  /\ il' = [il EXCEPT !.ipc = "closethread"]
  /\ UNCHANGED <<lockVars, storeAll>>

\* defer: <-canceldone
IJoin ==
  /\ il.ipc = "join"
  /\ ~il.panicked
  /\ il.canceldone = "closed"
  /\ il' = [il EXCEPT !.ipc = "closethread"]
  /\ UNCHANGED <<lockVars, storeAll>>

\* defer lockCloseThread(thread)
ICloseThread ==
  /\ il.ipc = "closethread"
  /\ ~il.panicked
  /\ il' = [il EXCEPT !.thread = "closed", !.ipc = "unpin"]
  /\ UNCHANGED <<lockVars, storeAll>>

\* defer runtime.UnlockOSThread(), and the call returns.
IUnpin ==
  /\ il.ipc = "unpin"
  /\ ~il.panicked
  /\ il' = [il EXCEPT !.pinned = FALSE, !.ipc = "idle"]
  /\ IReturn(il.ierr)
  /\ UNCHANGED <<goos, held, hwait, hop, hprev, storeAll>>

\* Watcher: cancelfn := <-cancelchan
WRecv ==
  /\ il.wpc = "recv"
  /\ ~il.panicked
  /\ il.cancelchan = "full"
  /\ il' = [il EXCEPT !.cancelchan = "empty", !.wpc = "select"]
  /\ UNCHANGED <<lockVars, storeAll>>

\* A watcher that does not wait for the context to be cancelled.
WSelectEager ==
  /\ il.wpc = "select"
  /\ ~il.panicked
  /\ il' = [il EXCEPT !.wpc = IF il.done = "closed" THEN "exit" ELSE "recheck"]
  /\ UNCHANGED <<lockVars, storeAll>>

\* Watcher: select { case <-done: ; case <-ctx.Done(): ... }
WSelect ==
  /\ il.wpc = "select"
  /\ ~il.panicked
  /\ \/ il.done = "closed" /\ il' = [il EXCEPT !.wpc = "exit"]
     \/ il.ctxDone /\ il' = [il EXCEPT !.wpc = "recheck"]
  /\ UNCHANGED <<lockVars, storeAll>>

\* Watcher: select { case <-done: return; default: }
WRecheck ==
  /\ il.wpc = "recheck"
  /\ ~il.panicked
  /\ il' = [il EXCEPT !.wpc = IF il.done = "closed" THEN "exit" ELSE "cancel"]
  /\ UNCHANGED <<lockVars, storeAll>>

\* Watcher: err := cancelfn(), that is lockInterrupt(thread).  A thread asleep
\* in the raw lock is woken: lock returns errLockInterrupted.  A thread that
\* is not: tgkill's signal runs the handler and changes nothing;
\* CancelSynchronousIo finds no I/O to cancel and fails, and the watcher panics.
WInterrupt ==
  /\ il.wpc = "cancel"
  /\ ~il.panicked
  /\ IF il.ipc = "wait"
       THEN /\ il' = [il EXCEPT !.interrupts = @ + 1, !.ipc = "intr", !.wpc = "exit"]
            /\ Sleeps("no")
       ELSE /\ il' = [il EXCEPT !.interrupts = @ + 1,
                                !.panicked = (goos = "windows"),
                                !.wpc = IF goos = "windows" THEN "panic" ELSE "exit"]
            /\ UNCHANGED hwait
  /\ UNCHANGED <<goos, held, hop, hres, hprev, storeAll>>

\* Watcher: defer close(canceldone), and the goroutine ends.
WExit ==
  /\ il.wpc = "exit"
  /\ ~il.panicked
  /\ il' = [il EXCEPT !.canceldone = "closed", !.wpc = "exited"]
  /\ UNCHANGED <<lockVars, storeAll>>

\* interruptibleLockFallback, blocking: the background goroutine is started.
FStart ==
  /\ il.ipc = "fallback"
  /\ il' = [il EXCEPT !.bpc = "run", !.ipc = "fselect"]
  /\ UNCHANGED <<lockVars, storeAll>>

\* Background: done <- lock(f, flags), up to the point where the kernel grants
\* the lock, fails, or puts the thread to sleep.
BRawLock ==
  /\ il.bpc = "run"
  /\ \/ /\ il' = [il EXCEPT !.rawLocks = @ + 1, !.bpc = "err"]
        /\ UNCHANGED <<held, hwait>>
     \/ /\ ~Conflict(held, Caller, IMode)
        /\ held' = [held EXCEPT ![Caller] = Granted(goos, held[Caller], IMode)]
        /\ il' = [il EXCEPT !.rawLocks = @ + 1, !.bpc = "nil"]
        /\ UNCHANGED hwait
     \/ /\ Conflict(held, Caller, IMode)
        /\ \E left \in LeftUngranted(goos, held[Caller], IMode) :
             held' = [held EXCEPT ![Caller] = left]
        /\ Sleeps(IMode)
        /\ il' = [il EXCEPT !.rawLocks = @ + 1, !.bpc = "wait"]
  /\ UNCHANGED <<goos, hop, hres, hprev, storeAll>>

\* Background: the kernel grants the lock, whether or not the call returned.
BKernelGrant ==
  /\ il.bpc = "wait"
  /\ ~Conflict(held, Caller, IMode)
  /\ held' = [held EXCEPT ![Caller] = Granted(goos, held[Caller], IMode)]
  /\ Sleeps("no")
  /\ il' = [il EXCEPT !.bpc = "nil"]
  /\ UNCHANGED <<goos, hop, hres, hprev, storeAll>>

\* A fallback that gives precedence to the context.
FSelectCtxFirst ==
  /\ il.ipc = "fselect"
  /\ \/ /\ il.bpc \in {"nil", "err"}
        /\ ~il.ctxDone
        /\ IReturn(IF il.bpc = "nil" THEN "nil" ELSE "SysErr")
        /\ il' = [il EXCEPT !.bpc = "none", !.ipc = "idle"]
     \/ /\ il.ctxDone
        /\ IReturn("Canceled")
        /\ il' = [il EXCEPT !.ipc = "idle"]
  /\ UNCHANGED <<goos, held, hwait, hop, hprev, storeAll>>

\* The select of the fallback: the result of the background lock when there
\* is one, else ctx.Err() when the context is cancelled.
FSelect ==
  /\ il.ipc = "fselect"
  /\ \/ /\ il.bpc \in {"nil", "err"}
        /\ IReturn(IF il.bpc = "nil" THEN "nil" ELSE "SysErr")
        /\ il' = [il EXCEPT !.bpc = "none", !.ipc = "idle"]
     \/ /\ il.bpc \notin {"nil", "err"}
        /\ il.ctxDone
        /\ IReturn("Canceled")
        /\ il' = [il EXCEPT !.ipc = "idle"]
  /\ UNCHANGED <<goos, held, hwait, hop, hprev, storeAll>>

\* ----------------------------------------------------------- specifications
\* What the file named path holds at the start: nothing, the encoding of a
\* value, or bytes that do not decode.
DestInits == {<<"absent">>, <<"file", Encode(5)>>, <<"file", <<120>>>>}
\* What an aborted writer left under path + ".lock": nothing, or stale bytes
\* (more of them than any encoding written here has).
SidecarInits == {<<"absent">>, <<"file", <<57, 57, 57, 57>>>>}

InitProcs(P) ==
  /\ fd = [p \in P |-> 0]
  /\ lk = [p \in P |-> "un"]
  /\ fn = [p \in P |-> "inc"]
  /\ val = [p \in P |-> 0]
  /\ canary = [p \in P |-> <<>>]
  /\ newCanary = [p \in P |-> -1]
  /\ wpos = [p \in P |-> 0]
  /\ lerr = [p \in P |-> "nil"]
  /\ serr = [p \in P |-> "nil"]
  /\ ret = [p \in P |-> "none"]
  /\ cancelled = [p \in P |-> FALSE]
  /\ crashed = [p \in P |-> FALSE]
  /\ events = 0
  /\ cbArg = [p \in P |-> <<>>]
  /\ renames = 0
  /\ verAtLoad = [p \in P |-> 0]
  /\ touched = [p \in P |-> FALSE]
  /\ lastStored = 0

Init ==
  /\ \E d \in DestInits, s \in SidecarInits :
       /\ path = IF d[1] = "absent" THEN 0 ELSE 1
       /\ lockp = IF s[1] = "absent" THEN 0 ELSE 2
       /\ data = [i \in 1..2 |-> IF i = 1
                                  THEN (IF d[1] = "absent" THEN <<>> ELSE d[2])
                                  ELSE (IF s[1] = "absent" THEN <<>> ELSE s[2])]
       /\ initDest = IF d[1] = "absent" THEN <<>> ELSE d[2]
  /\ nextIno = 3
  /\ pc = [p \in 1..NumProcs |-> "idle"]
  /\ op = [p \in 1..NumProcs |-> "none"]
  /\ calls = 0
  /\ InitProcs(1..NumProcs)
  /\ NoHandles

Step(p) ==
  \/ CallLoad(p) \/ CallStore(p) \/ CallLoadAndStore(p)
  \/ LoadOpen(p) \/ LoadRLock(p) \/ LoadRLockCanceled(p) \/ LoadDecode(p) \/ LoadClose(p)
  \/ Callback(p)
  \/ StoreOpen(p) \/ StoreLock(p) \/ StoreLockCanceled(p) \/ StoreCanary(p)
  \/ StoreDeleted(p) \/ StoreTruncate(p) \/ StoreEncode(p) \/ StoreRename(p)
  \/ StoreClose(p)
  \/ LoadFault(p) \/ StoreFault(p) \/ Crash(p) \/ Cancel(p)

Next == \E p \in 1..NumProcs : Step(p)

Spec == Init /\ [][Next]_vars

\* The stress test: NumWriters concurrent LoadAndStore calls with the
\* incrementing callback, on a path that does not exist, in an empty directory.
InitStress ==
  /\ path = 0
  /\ lockp = 0
  /\ data = [i \in 1..2 |-> <<>>]
  /\ initDest = <<>>
  /\ nextIno = 3
  /\ pc = [p \in 1..NumWriters |-> "l_open"]
  /\ op = [p \in 1..NumWriters |-> "las"]
  /\ calls = NumWriters
  /\ InitProcs(1..NumWriters)
  /\ NoHandles

StepStress(p) ==
  \/ LoadOpen(p) \/ LoadRLock(p) \/ LoadDecode(p) \/ LoadClose(p)
  \/ Callback(p)
  \/ StoreOpen(p) \/ StoreLock(p) \/ StoreCanary(p)
  \/ StoreDeleted(p) \/ StoreTruncate(p) \/ StoreEncode(p) \/ StoreRename(p)
  \/ StoreClose(p)

NextStress == \E p \in 1..NumWriters : StepStress(p)

SpecStress == InitStress /\ [][NextStress]_vars

\* The lock tests: NumHandles handles of one file, on each platform, no lock held.
InitLock ==
  /\ goos \in Platforms
  /\ held = [h \in 1..NumHandles |-> {}]
  /\ hwait = [h \in 1..NumHandles |-> "no"]
  /\ hop = [h \in 1..NumHandles |-> "none"]
  /\ hres = [h \in 1..NumHandles |-> "none"]
  /\ hprev = [h \in 1..NumHandles |-> {}]
  /\ NoCall
  /\ path = 0
  /\ lockp = 0
  /\ data = <<>>
  /\ initDest = <<>>
  /\ nextIno = 1
  /\ pc = <<>>
  /\ op = <<>>
  /\ calls = 0
  /\ InitProcs({})

StepLock(h) ==
  \/ TryLock(h) \/ TryRLock(h) \/ Unlock(h) \/ Lock(h) \/ RLock(h)
  \/ LockGranted(h) \/ LockCanceled(h)

NextLock == \E h \in 1..NumHandles : StepLock(h)

SpecLock == InitLock /\ [][NextLock]_vars

\* The cancellation example: the handle Caller makes blocking calls, the other
\* handles take and release locks, on each platform.
\* The calls on the handles, with raw locks that may fail, under the builds of
\* lock.go with the platform files and under lock_unix.go.
StepRaw(h) == StepLock(h) \/ LockFault(h) \/ LockFaultUnix(h)

NextRaw == \E h \in 1..NumHandles : StepRaw(h)

SpecRaw == InitLock /\ [][NextRaw]_vars

InitIntr == InitLock

\* What the other handles, and the caller between two blocking calls, do.
OtherStep ==
  \/ \E h \in 2..NumHandles : TryLock(h)
  \/ \E h \in 2..NumHandles : TryRLock(h)
  \/ \E h \in 2..NumHandles : Unlock(h)
  \/ il.ipc = "idle" /\ ~il.panicked /\ Unlock(Caller)

MainStep ==
  \/ IPoll \/ ISpawn \/ IPin \/ IGetThread \/ ISend \/ IRawLock \/ IInterrupted
  \/ ICloseDone \/ IJoin \/ ICloseThread \/ IUnpin \/ FStart \/ FSelect

WatcherStep == WRecv \/ WSelect \/ WRecheck \/ WInterrupt \/ WExit

KernelStep == IKernelGrant \/ BRawLock \/ BKernelGrant

NextIntr ==
  \/ ILock \/ IRLock \/ ICancel \/ ISpurious
  \/ MainStep \/ WatcherStep \/ KernelStep \/ OtherStep

SpecIntr == InitIntr /\ [][NextIntr]_vars

\* The Go scheduler runs every goroutine that can run, and the kernel grants a
\* lock that is free to a thread that sleeps for it.
SpecIntrFair ==
  /\ SpecIntr
  /\ WF_vars(MainStep)
  /\ WF_vars(WatcherStep)
  /\ WF_vars(KernelStep)

\* ------------------------------------------------------------------ claims
LoadPcs == {"l_open", "l_rlock", "l_decode", "l_close"}
StorePcs == {"s_open", "s_lock", "s_canary", "s_deleted", "s_trunc", "s_encode",
             "s_rename", "s_close"}
\* Store passed its canary check and has not renamed yet.
PastCanaryPcs == {"s_deleted", "s_trunc", "s_encode", "s_rename"}

\* The content is the whole encoding of a value and nothing else.
IsEncoding(c) == Decode(c).ok /\ c = Encode(Decode(c).val)

\* What a Load of the file named path gives when nobody holds a lock on it.
LoadNow == IF path = 0 THEN [err |-> "NotExist", val |-> 0]
           ELSE IF Decode(data[path]).ok THEN [err |-> "nil", val |-> Decode(data[path]).val]
           ELSE [err |-> "DecodeErr", val |-> 0]

\* What the file named path should hold: the initial content until the first
\* rename, the encoding of the value of the last rename after it.
DestAsStored ==
  IF renames = 0 THEN (path = 0 /\ initDest = <<>>) \/ (path = 1 /\ data[path] = initDest)
  ELSE path # 0 /\ data[path] = Encode(lastStored)

AllReturned == \A p \in Procs : pc[p] = "idle" /\ op[p] = "las"

\* C1: once all the concurrent incrementing LoadAndStore calls on a path that
\* did not exist have returned, each of them returned nil and a Load gives
\* their number: no increment is lost or applied twice.
C1_StressCountsAll ==
  AllReturned =>
    /\ \A p \in Procs : ret[p] = "nil"
    /\ LoadNow = [err |-> "nil", val |-> Cardinality(Procs)]

C1_Witness == AllReturned /\ Cardinality(Procs) = NumWriters /\ renames >= NumWriters

\* C2: a Store inside a LoadAndStore iteration that got past its canary check
\* renames only if no rename onto path completed since the iteration's Load
\* opened path, and the value its callback saw is the one the last rename (or
\* the start) installed.
C2_CommitOnlyIfUnchanged ==
  \A p \in Procs :
    (op[p] = "las" /\ ~crashed[p] /\ pc[p] \in PastCanaryPcs) =>
      /\ renames = verAtLoad[p]
      /\ cbArg[p] # <<>>
      /\ cbArg[p][1].val = IF renames > 0 THEN lastStored ELSE Decode(initDest).val

C2_Witness ==
  \E p \in Procs : \E q \in Procs \ {p} :
    /\ op[p] = "las" /\ At(p, "s_rename") /\ renames > 0 /\ cbArg[p][1].val = lastStored
    /\ op[q] = "las" /\ ret[q] = "nil"

\* C3: the file named path is absent, or holds the initial content or the whole
\* encoding of the value of the last successful Store, and so does every file a
\* Load decodes, the one that was renamed over while the reader had it open too.
C3_NeverPartial ==
  /\ DestAsStored
  /\ \A p \in Procs :
       pc[p] \in {"l_rlock", "l_decode", "l_close"} =>
         (fd[p] = 1 /\ data[fd[p]] = initDest) \/ IsEncoding(data[fd[p]])

C3_Witness ==
  \E p \in Procs : \E q \in Procs \ {p} :
    /\ pc[p] = "l_decode" /\ fd[p] # path /\ IsEncoding(data[fd[p]])
    /\ renames > 0 /\ data[path] # data[fd[p]]

\* C4: a writer that died inside Store before its rename left the file named
\* path as it was: a Load gives the value stored last (or the initial one), or
\* NotExist, never a truncated or empty one.
C4_CrashLeavesDest ==
  \A p \in Procs :
    crashed[p] => ~touched[p] /\ DestAsStored /\ LoadNow.err \in {"nil", "NotExist"} \cup (IF Decode(initDest).ok \/ initDest = <<>> THEN {} ELSE {"DecodeErr"})

C4_Witness ==
  \E p \in Procs : crashed[p] /\ pc[p] = "s_rename" /\ path # 0 /\ lockp # 0
                   /\ IsEncoding(data[lockp]) /\ data[lockp] # data[path]

\* C5: round trip.  Right after a Store renamed (it still holds the sidecar
\* lock, so no other writer stored since) a Load of path gives the value
\* stored, and a Load that no rename overtook since it opened path returns the
\* value of the last Store.
C5_RoundTrip ==
  \A p \in Procs :
    /\ (At(p, "s_close") /\ serr[p] = "nil") => LoadNow = [err |-> "nil", val |-> val[p]]
    /\ (pc[p] = "l_close" /\ lerr[p] = "nil" /\ renames > 0 /\ verAtLoad[p] = renames)
         => val[p] = lastStored

C5_Witness ==
  \E p \in Procs :
    /\ op[p] = "load" /\ pc[p] = "l_close" /\ lerr[p] = "nil"
    /\ renames > 0 /\ verAtLoad[p] = renames /\ val[p] \in StoreValues

\* Store returned this error to its caller (the loop of LoadAndStore included).
StoreFailedWith(p, e) ==
  \/ At(p, "s_close") /\ serr[p] = e
  \/ pc[p] = "idle" /\ op[p] \in {"store", "las"} /\ ret[p] = e

StoreErrors == {"Canceled", "ErrRetry", "SyscallErr", "EncodeErr"}

\* C6: a Store that returns an error (cancellation, ErrRetry, a failed lock,
\* stat, truncate, encode or rename) has changed neither the content nor the
\* identity of the file named path.
C6_ErrorLeavesDest ==
  \A p \in Procs : \A e \in StoreErrors : StoreFailedWith(p, e) => ~touched[p]

C6_Witness ==
  \E p \in Procs :
    /\ StoreFailedWith(p, "EncodeErr") /\ ~touched[p]
    /\ path # 0 /\ lockp # 0 /\ ~IsEncoding(data[lockp])

\* C7: a Store whose canary is not nil and differs from the identity of the
\* file named path, read under the sidecar lock, returns ErrRetry; LoadAndStore
\* never returns ErrRetry.
C7_StaleCanaryRetries ==
  \A p \in Procs :
    /\ (~crashed[p] /\ canary[p] # <<>> /\ newCanary[p] # -1 /\ newCanary[p] # canary[p][1])
         => pc[p] = "s_close" /\ serr[p] = "ErrRetry"
    /\ (op[p] = "las" /\ pc[p] = "idle") => ret[p] # "ErrRetry"

C7_Witness ==
  \E p \in Procs :
    /\ op[p] = "las" /\ At(p, "s_close") /\ serr[p] = "ErrRetry"
    /\ canary[p] # <<>> /\ newCanary[p] > 0 /\ newCanary[p] # canary[p][1]

\* C8: a Store called with a nil canary is never turned down by the canary
\* check, whatever file the path names.
C8_NilCanaryNeverRejected ==
  \A p \in Procs :
    (op[p] = "store" /\ At(p, "s_close") /\ canary[p] = <<>> /\ newCanary[p] > 0)
      => serr[p] # "ErrRetry"

Inc(v) == v + 1

\* C10: every iteration of LoadAndStore calls the callback, whatever Load
\* returned; for a path that names no file the callback gets the zero value and
\* NotExist, and when it returns nil the Store creates the file with the
\* encoding of the value the callback left.
C10_Inv ==
  \A p \in Procs :
    (op[p] = "las" /\ ~crashed[p]) =>
      /\ pc[p] \in StorePcs => cbArg[p] # <<>> /\ cbArg[p][1].err = lerr[p]
                               /\ val[p] = Inc(cbArg[p][1].val)
      /\ (pc[p] = "cb" /\ lerr[p] = "NotExist") => val[p] = 0 /\ canary[p] = <<>>
      /\ (pc[p] = "s_close" /\ serr[p] = "nil" /\ lerr[p] = "NotExist")
           => path = fd[p] /\ data[path] = Encode(Inc(0))

C10_Act ==
  \A p \in Procs :
    (op[p] = "las" /\ pc[p] \in LoadPcs /\ pc'[p] # pc[p]) =>
      /\ pc'[p] \in LoadPcs \cup {"cb"}
      /\ (pc[p] = "l_open" /\ path = 0 /\ ~cancelled[p] /\ events' = events)
           => pc'[p] = "cb" /\ lerr'[p] = "NotExist"

\* C10 (as one formula): the callback is reached from every Load of LoadAndStore,
\* gets the zero value and NotExist for an absent path, and its value is what
\* the Store installs.
C10_CallbackAlways == [](C10_Inv) /\ [][C10_Act]_vars

C10_Witness ==
  \E p \in Procs :
    /\ op[p] = "las" /\ At(p, "s_close") /\ serr[p] = "nil" /\ lerr[p] = "NotExist"
    /\ cbArg[p] = <<[val |-> 0, err |-> "NotExist"]>> /\ LoadNow = [err |-> "nil", val |-> 1]

\* C11: when the callback returns an error LoadAndStore returns it at once: the
\* step changes no file, no descriptor and no lock, and such a call never is
\* inside Store.
C11_Inv ==
  \A p \in Procs : (op[p] = "las" /\ fn[p] = "fail" /\ pc[p] # "idle") => pc[p] \in LoadPcs \cup {"cb"}

C11_Act ==
  \A p \in Procs :
    (pc[p] = "cb" /\ fn[p] = "fail" /\ pc'[p] # pc[p]) =>
      pc'[p] = "idle" /\ ret'[p] = "FnErr" /\ UNCHANGED fsVars

C12_RetryOnlyAfterRename ==
  \A p \in Procs :
    (op[p] = "las" /\ At(p, "s_close") /\ serr[p] = "ErrRetry" /\ calls = 1 /\ events = 0)
      => renames > verAtLoad[p]

\* C13: a LoadAndStore whose context is done when an iteration begins gets the
\* cancellation error from the Load and from the Store of that iteration and
\* returns it; so after a cancellation at most one further iteration starts.
C13_Inv ==
  \A p \in Procs :
    (op[p] = "las" /\ ~crashed[p]) =>
      /\ (cancelled[p] /\ pc[p] \in {"l_close", "cb"}) => lerr[p] = "Canceled"
      /\ (lerr[p] = "Canceled" /\ pc[p] # "idle") => cancelled[p] /\ pc[p] \in {"l_close", "cb", "s_open"}

C13_Act ==
  \A p \in Procs :
    /\ (op[p] = "las" /\ cancelled[p] /\ pc[p] = "s_open" /\ pc'[p] # pc[p])
         => pc'[p] = "idle" /\ ret'[p] = "Canceled"
    /\ (op[p] = "las" /\ cancelled[p] /\ pc[p] \in StorePcs /\ pc'[p] = "l_open")
         => lerr[p] # "Canceled"

\* C13 (as one formula).
C13_CancelEndsLoop == [](C13_Inv) /\ [][C13_Act]_vars

C13_Witness ==
  \E p \in Procs :
    /\ op[p] = "las" /\ cancelled[p] /\ At(p, "s_open") /\ lerr[p] = "Canceled"
    /\ renames > 0

\* The writers that hold the exclusive lock on the file path + ".lock" names.
SidecarHolders == {p \in Procs : lockp # 0 /\ fd[p] = lockp /\ lk[p] = "ex"}
\* The writers between the deleted check they passed and their rename.
Writing == {p \in Procs : ~crashed[p] /\ pc[p] \in {"s_trunc", "s_encode", "s_rename"}}

\* C14: at most one Store holds the exclusive lock on the file named
\* path + ".lock", and at most one is truncating, encoding or renaming, which
\* is that one.
C14_OneWriter ==
  /\ Cardinality(SidecarHolders) <= 1
  /\ Cardinality(Writing) <= 1
  /\ Writing \subseteq SidecarHolders

C14_Witness ==
  \E p \in Procs : \E q \in Procs \ {p} :
    /\ p \in Writing /\ pc[p] = "s_encode"
    /\ At(q, "s_lock") /\ fd[q] = fd[p]

\* The handles other than h.
Others(h) == Handles \ {h}

\* C15: TryLock returns at once with ErrWouldBlock, and gets no lock, whenever
\* another handle of the file holds an exclusive or a shared lock; no state has
\* an exclusive lock on a handle and any lock on another.
C15_Inv == \A h \in Handles : \A g \in Others(h) : "ex" \in held[h] => held[g] = {}

C15_Act ==
  \A h \in Handles :
    (TryLock(h) /\ \E g \in Others(h) : held[g] # {}) =>
      hres'[h] = "WouldBlock" /\ "ex" \notin held'[h] /\ hwait'[h] = "no"

\* C15 (as one formula).
C15_TryLockExcluded == [](C15_Inv) /\ [][C15_Act]_vars

C15_Witness ==
  \E h \in Handles : \E g \in Others(h) :
    /\ hop[h] = "TryLock" /\ hres[h] = "WouldBlock" /\ held[h] = {}
    /\ hop[g] = "TryRLock" /\ hres[g] = "nil" /\ held[g] = {"sh"}

\* C16: TryRLock succeeds and gives the handle a shared lock whenever no other
\* handle of the file holds an exclusive lock, whatever shared locks there are.
C16_SharedCompatible ==
  [][\A h \in Handles :
       (TryRLock(h) /\ \A g \in Others(h) : "ex" \notin held[g]) =>
         hres'[h] = "nil" /\ "sh" \in held'[h]]_vars

C16_Witness ==
  \A h \in Handles : hop[h] = "TryRLock" /\ hres[h] = "nil" /\ held[h] = {"sh"}

\* C17: Unlock leaves the handle without lock; when no other handle holds a
\* lock TryLock succeeds and gives the handle the exclusive lock, and the
\* handle that unlocked is then refused by TryLock.
C17_Act ==
  \A h \in Handles :
    /\ Unlock(h) => held'[h] = {}
    /\ (TryLock(h) /\ \A g \in Others(h) : held[g] = {})
         => hres'[h] = "nil" /\ held'[h] = {"ex"}
    /\ (TryLock(h) /\ hop[h] = "Unlock" /\ \E g \in Others(h) : "ex" \in held[g])
         => hres'[h] = "WouldBlock" /\ held'[h] = {}

\* C17 (as one formula).
C17_UnlockReleases == [][C17_Act]_vars

C17_Witness ==
  \E h \in Handles : \E g \in Others(h) :
    /\ hop[h] = "Unlock" /\ hprev[h] = {"ex"} /\ held[h] = {}
    /\ hop[g] = "TryLock" /\ hres[g] = "nil" /\ held[g] = {"ex"} /\ hprev[g] = {}

\* C18: a successful Lock or TryLock on a handle that holds a shared lock leaves
\* it with the exclusive lock alone, no other handle holding any; a successful
\* RLock or TryRLock on a handle that holds the exclusive lock leaves it with a
\* shared lock alone, which lets the other handles in; no handle ever holds two
\* locks.
C18_Inv == \A h \in Handles : Cardinality(held[h]) <= 1

C18_Act ==
  \A h \in Handles :
    /\ ((Lock(h) \/ TryLock(h)) /\ held[h] = {"sh"} /\ hres'[h] = "nil")
         => held'[h] = {"ex"} /\ \A g \in Others(h) : held[g] = {}
    /\ (LockGranted(h) /\ hwait[h] = "ex" /\ hprev[h] = {"sh"})
         => held'[h] = {"ex"} /\ \A g \in Others(h) : held[g] = {}
    /\ ((RLock(h) \/ TryRLock(h)) /\ held[h] = {"ex"} /\ hres'[h] # "Canceled")
         => hres'[h] = "nil" /\ held'[h] = {"sh"}
            /\ \A g \in Others(h) : ~Conflict(held', g, "sh")

\* C18 (as one formula).
C18_PromoteDemote == [](C18_Inv) /\ [][C18_Act]_vars

C18_Witness ==
  \E h \in Handles : \E g \in Others(h) :
    /\ hop[h] \in {"RLock", "TryRLock"} /\ hprev[h] = {"ex"} /\ hres[h] = "nil" /\ held[h] = {"sh"}
    /\ hop[g] = "TryRLock" /\ hres[g] = "nil" /\ held[g] = {"sh"}

\* C19: a Lock or RLock call made with a context that is cancelled already
\* returns the cancellation error from the first poll: it makes no raw lock
\* call, pins no thread, opens no thread token, starts neither watcher nor
\* background goroutine and never waits; except on windows the handle holds
\* what it held before the call.
C19_CancelledBeforeCall ==
  (hop[Caller] \in {"Lock", "RLock"} /\ il.ctxAtCall) =>
    /\ il.ipc \in {"poll", "idle"}
    /\ il.ipc = "idle" => hres[Caller] = "Canceled"
    /\ il.rawLocks = 0 /\ ~il.pinned /\ il.thread = "none"
    /\ il.wpc = "none" /\ il.bpc = "none" /\ hwait[Caller] = "no"
    /\ goos # "windows" => held[Caller] = hprev[Caller]

C19_Witness ==
  /\ hop[Caller] = "Lock" /\ il.ctxAtCall /\ il.ipc = "idle" /\ hres[Caller] = "Canceled"
  /\ goos = "linux" /\ hprev[Caller] = {"sh"} /\ held[Caller] = {"sh"}
  /\ \E g \in Others(Caller) : held[g] = {"sh"}

\* C20: on the platforms with interruptible locks, once the context of a
\* blocking call that passed its first poll is cancelled, the call returns,
\* unless the lock it waits for becomes available: the interrupt of the watcher
\* is never lost.
C20_CancelGetsThrough ==
  (Interruptible(goos) /\ il.ipc \notin {"idle", "poll"} /\ il.ctxDone)
    ~> (il.ipc = "idle" \/ ~Conflict(held, Caller, IMode))

\* A blocking call on the handle Caller was made and has returned.
Returned == hop[Caller] \in {"Lock", "RLock"} /\ il.ipc = "idle"

\* C21: a raw lock that returns errLockInterrupted while the context is not
\* cancelled is called again, and the call returns nothing because of it; a
\* blocking call returns nil, the error of the context (only when the context
\* is cancelled) or the error of the raw lock, and nothing else.
C21_Inv ==
  /\ il.ierr \in {"none", "nil", "Canceled", "SysErr"}
  /\ Returned => hres[Caller] \in {"nil", "Canceled", "SysErr"}
  /\ (Returned /\ hres[Caller] = "Canceled") => il.ctxDone

C21_Act ==
  (IInterrupted /\ ~il.ctxDone) =>
    il'.ipc = "lock" /\ il'.ierr = "none" /\ hres'[Caller] = "none"

\* C21 (as one formula).
C21_SpuriousRetried == [](C21_Inv) /\ [][C21_Act]_vars

C21_Witness ==
  /\ Returned /\ hres[Caller] = "nil" /\ IMode \in held[Caller]
  /\ il.spurious = 1 /\ il.rawLocks = 2 /\ ~il.ctxDone /\ il.interrupts = 0

\* The calls that take a lock, and the errors they return.
LockCalls == {"Lock", "RLock", "TryLock", "TryRLock"}
LockErrors == {"WouldBlock", "Canceled", "SysErr"}

\* C22: except on windows, a handle whose last call was Lock, RLock, TryLock or
\* TryRLock and returned an error holds what it held when the call was made.
C22_ErrorKeepsLock ==
  \A h \in Handles :
    (goos # "windows" /\ hop[h] \in LockCalls /\ hres[h] \in LockErrors)
      => held[h] = hprev[h]

\* C23: on windows the handle holds no lock from the entry of Lock, RLock,
\* TryLock or TryRLock (before the poll of the context) until the raw lock is
\* granted; so it holds none when the call has returned an error, whatever it
\* held when the call was made.
C23_WindowsErrorUnlocks ==
  goos = "windows" =>
    /\ \A h \in Handles :
         (hop[h] \in LockCalls /\ hres[h] \in LockErrors) => held[h] = {}
    /\ (il.ipc # "idle" /\ il.ierr # "nil") => held[Caller] = {}

C23_Witness ==
  /\ goos = "windows"
  /\ Returned /\ il.ctxAtCall /\ hres[Caller] = "Canceled"
  /\ hprev[Caller] = {"sh"} /\ held[Caller] = {}
  /\ \E g \in Others(Caller) :
       hop[g] = "TryLock" /\ hres[g] = "WouldBlock" /\ hprev[g] = {"sh"} /\ held[g] = {}

\* C24: a Lock on a handle that holds the exclusive lock, or an RLock on a
\* handle that holds a shared lock, is a no-op: the handle holds that lock all
\* through the call and after it, the call never waits, and unless its context
\* is cancelled it returns no error but that of the raw lock.
C24_RelockIsNoOp ==
  (hop[Caller] \in {"Lock", "RLock"} /\ hprev[Caller] = {IMode}) =>
    /\ held[Caller] = {IMode}
    /\ il.ipc # "wait" /\ il.bpc # "wait"
    /\ (Returned /\ ~il.ctxDone) => hres[Caller] \in {"nil", "SysErr"}

\* C25: from the moment the watcher has the cancel function until it has
\* closed canceldone, the thread of the call is pinned and its token is open:
\* the main path closes done and waits for canceldone before it closes the
\* token and unpins.  So every lockInterrupt is made while the main path is in
\* its loop or waits for the watcher, on a pinned thread with an open token.
C25_Inv ==
  /\ il.wpc \in {"select", "recheck", "cancel", "exit"}
       => il.pinned /\ il.thread = "open"
  /\ il.thread = "closed" => il.wpc = "exited" /\ il.done = "closed"
  /\ (Returned /\ il.thread = "closed") => ~il.pinned

C25_Act ==
  /\ WInterrupt
       => /\ il.pinned /\ il.thread = "open"
          /\ il.ipc \in {"lock", "wait", "intr", "closedone", "join"}
  /\ (ICloseThread \/ IUnpin) => il.wpc \in {"exited", "recv"}
  /\ ICloseThread => il.done = "closed" /\ il.canceldone = "closed"

\* C25 (as one formula).
C25_JoinBeforeUnpin == [](C25_Inv) /\ [][C25_Act]_vars

C25_Witness ==
  /\ Returned /\ hres[Caller] = "Canceled" /\ il.interrupts = 1
  /\ il.wpc = "exited" /\ il.thread = "closed" /\ ~il.pinned

\* C26: when a blocking call has returned, whatever it returned, its watcher
\* (if one was started) has ended, its thread token (if one was opened) is
\* closed, and the thread is not pinned any more.
C26_AllReleased ==
  Returned =>
    /\ il.wpc \in {"none", "exited"}
    /\ il.thread \in {"none", "closed"}
    /\ ~il.pinned

\* C27: the watcher calls lockInterrupt at most once in a call, only when the
\* context is cancelled, and not once it has seen done closed; the watcher of
\* a call whose context is not cancelled ends without it; TryLock and TryRLock
\* start no watcher.
C27_Inv ==
  /\ il.interrupts <= 1
  /\ il.interrupts > 0 => il.ctxDone
  /\ il.wpc \in {"recheck", "cancel"} => il.ctxDone
  /\ (il.wpc = "exited" /\ ~il.ctxDone) => il.interrupts = 0

C27_Act ==
  /\ WInterrupt => il.ctxDone /\ il.interrupts = 0 /\ il'.interrupts = 1
  /\ (WRecheck /\ il.done = "closed") => il'.wpc = "exit"
  /\ il'.interrupts # il.interrupts => (WInterrupt \/ il'.interrupts = 0)
  /\ \A h \in Handles : (TryLock(h) \/ TryRLock(h)) => il' = il

\* C27 (as one formula).
C27_InterruptOnce == [](C27_Inv) /\ [][C27_Act]_vars

C27_Witness ==
  /\ il.interrupts = 1 /\ il.wpc = "exit" /\ il.ipc = "intr" /\ il.ctxDone
  /\ \E g \in Others(Caller) : hop[g] = "TryLock" /\ held[g] = {"ex"}

\* C28: on the platforms with interruptible locks, once the raw lock of a
\* blocking call has returned nil the call returns nil and the handle holds the
\* lock, whether or not the context is cancelled and wherever the watcher is.
C28_GrantedReturnsNil ==
  (Interruptible(goos) /\ il.ipc # "idle" /\ il.ierr = "nil")
    ~> (Returned /\ hres[Caller] = "nil" /\ IMode \in held[Caller])

\* C29: without interruptible locks, the select of a blocking call returns the
\* result of the background raw lock whenever there is one, the context
\* cancelled or not; it returns the error of the context only when the context
\* is cancelled and there is none, and the background goroutine, which is in
\* its raw lock, stays there; what it does later changes the locks of the
\* handle and not what the call returned.
C29_Act ==
  /\ (FSelect /\ il.bpc \in {"nil", "err"})
       => hres'[Caller] = (IF il.bpc = "nil" THEN "nil" ELSE "SysErr")
  /\ (FSelect /\ il.bpc \notin {"nil", "err"})
       => /\ il.ctxDone /\ hres'[Caller] = "Canceled"
          /\ il.bpc \in {"run", "wait"} /\ il'.bpc = il.bpc
  /\ FSelect => held' = held
  /\ (BKernelGrant \/ BRawLock) => hres' = hres

\* C29 (as one formula).
C29_FallbackRace == [][C29_Act]_vars

C29_Witness ==
  /\ goos = "darwin" /\ Returned /\ hop[Caller] = "Lock" /\ hres[Caller] = "Canceled"
  /\ il.bpc = "nil" /\ hprev[Caller] = {} /\ held[Caller] = {"ex"}

\* C30: the rename of a successful Store gives the path an identity that is
\* not zero, is not the identity the path had before, and is the canary of no
\* Load made before it: no canary a caller or a call holds matches it.
C30_Act ==
  renames' = renames + 1 =>
    /\ path' # 0 /\ path' # path
    /\ \A q \in Procs : canary[q] # <<>> => CanaryMismatch(path', UintOf(canary[q]))

\* C30 (as one formula).
C30_StoreChangesIdentity == [][C30_Act]_vars

C30_Witness ==
  \E p \in Procs : \E q \in Procs \ {p} :
    /\ At(p, "s_close") /\ renames >= 1 /\ path = fd[p] /\ path # 0
    /\ initDest # <<>>
    /\ canary[q] = <<1>> /\ CanaryMismatch(path, UintOf(canary[q]))

\* C31: Load decodes and takes its canary under the shared lock of the file it
\* opened; the canary is the identity of that very file and the value is what
\* that file holds; once Load has returned, by any path, its descriptor is
\* closed and the caller holds no lock.
C31_Inv ==
  \A p \in Procs :
    /\ At(p, "l_decode") => fd[p] # 0 /\ lk[p] = "sh"
    /\ (At(p, "l_close") /\ lerr[p] = "nil") =>
         /\ fd[p] # 0 /\ lk[p] = "sh"
         /\ canary[p] = <<fd[p]>>
         /\ Decode(data[fd[p]]).ok /\ Decode(data[fd[p]]).val = val[p]
    /\ (~crashed[p] /\ pc[p] \in {"idle", "cb"}) => fd[p] = 0 /\ lk[p] = "un"

\* C31 (as one formula).
C31_LoadLocksAndCloses == [](C31_Inv)

\* A Load has decoded, under its lock, a file that a Store has replaced since.
C31_Witness ==
  \E p \in Procs :
    /\ op[p] = "load" /\ At(p, "l_close") /\ lerr[p] = "nil" /\ lk[p] = "sh"
    /\ canary[p] = <<fd[p]>> /\ path # fd[p] /\ renames = 1

\* C32: a Load or a Store whose context is done when it polls returns the
\* cancellation error and leaves the file system as it is (no file opened, no
\* sidecar created); a Load whose context is done while RLock waits, or by the
\* second poll, ends with the cancellation error, its value and canary as they
\* were at the call (the decoder did not run).
C32_Inv ==
  \A p \in Procs :
    (At(p, "l_close") /\ (cancelled[p] \/ lerr[p] = "Canceled")) =>
      lerr[p] = "Canceled" /\ cancelled[p] /\ val[p] = 0 /\ canary[p] = <<>>

C32_Act ==
  \A p \in Procs :
    /\ (cancelled[p] /\ pc[p] \in {"l_open", "s_open"} /\ ~crashed[p] /\ pc'[p] # pc[p]) =>
         /\ UNCHANGED <<path, lockp, data, nextIno, fd, lk>>
         /\ IF pc[p] = "l_open" /\ op[p] = "las"
            THEN pc'[p] = "cb" /\ lerr'[p] = "Canceled" /\ val'[p] = val[p]
                 /\ canary'[p] = <<>>
            ELSE pc'[p] = "idle" /\ ret'[p] = "Canceled"
    /\ (cancelled[p] /\ pc[p] \in {"l_rlock", "l_decode"} /\ ~crashed[p] /\ pc'[p] # pc[p]) =>
         /\ val'[p] = val[p] /\ canary'[p] = canary[p]
         /\ UNCHANGED <<path, lockp, data, nextIno>>
         /\ pc'[p] = "l_close" => lerr'[p] = "Canceled"

\* C32 (as one formula).
C32_CancelledTouchesNothing == [](C32_Inv) /\ [][C32_Act]_vars

\* The context was done by the second poll: the lock is held, the file decodes,
\* and Load is returning the cancellation error with the value untouched.
C32_Witness ==
  \E p \in Procs :
    /\ At(p, "l_close") /\ lerr[p] = "Canceled" /\ lk[p] = "sh"
    /\ Decode(data[fd[p]]).ok /\ Decode(data[fd[p]]).val # val[p]

\* C33: a Store whose descriptor refers to the file named path (its sidecar was
\* renamed onto the destination before it got the lock) returns ErrRetry at
\* its checks and never reaches the truncation, the encoding or the rename; a
\* step that changes the content of a file changes the file named path + ".lock"
\* only, which is not, and never was, the file named path.
C33_Inv ==
  \A p \in Procs :
    (~crashed[p] /\ pc[p] \in {"s_trunc", "s_encode", "s_rename"}) =>
      fd[p] # 0 /\ fd[p] # path /\ lk[p] = "ex"

C33_Act ==
  /\ \A i \in DOMAIN data : data'[i] # data[i] => i = lockp /\ i # path
  /\ \A p \in Procs :
       (~crashed[p] /\ pc[p] \in {"s_canary", "s_deleted"} /\ fd[p] = path
          /\ pc'[p] # pc[p] /\ events' = events) =>
         pc'[p] = "s_close" /\ serr'[p] = "ErrRetry" /\ data' = data

\* C33 (as one formula).
C33_NeverInPlace == [](C33_Inv) /\ [][C33_Act]_vars

\* The Store holds its exclusive lock on the file named path and is returning
\* ErrRetry.
C33_Witness ==
  \E p \in Procs :
    /\ At(p, "s_close") /\ serr[p] = "ErrRetry" /\ fd[p] = path /\ lk[p] = "ex"
    /\ renames = 1 /\ lockp = 0

\* C34: whatever the sidecar held when a Store found it, once the Store is
\* encoding, under its exclusive lock, the sidecar holds the bytes written so
\* far and nothing else; at the rename it holds the encoding of the value, and
\* after a successful rename so does the file named path.
C34_Inv ==
  \A p \in Procs :
    /\ At(p, "s_encode") =>
         /\ lk[p] = "ex" /\ fd[p] = lockp
         /\ data[fd[p]] = SubSeq(Encode(val[p]), 1, wpos[p])
    /\ At(p, "s_rename") => lk[p] = "ex" /\ data[fd[p]] = Encode(val[p])
    /\ (At(p, "s_close") /\ serr[p] = "nil") =>
         path = fd[p] /\ data[path] = Encode(val[p])

\* C34 (as one formula).
C34_SidecarReused == [](C34_Inv)

\* The stale sidecar of the start, longer than the encoding, was reused and
\* renamed onto the path.
C34_Witness ==
  \E p \in Procs :
    /\ At(p, "s_close") /\ serr[p] = "nil" /\ fd[p] = 2 /\ path = 2
    /\ data[path] = Encode(val[p]) /\ Len(data[path]) < 4

\* The steps of Store at which its sidecar is open.
SidecarOpenPcs == StorePcs \ {"s_open"}

\* C35: when a Store that has opened its sidecar returns, and not from a
\* successful rename, while no other live process has the sidecar open, no
\* file is named path + ".lock" any more.
C35_Act ==
  \A p \in Procs :
    (/\ ~crashed[p] /\ ~crashed'[p]
     /\ pc[p] \in SidecarOpenPcs /\ pc'[p] \notin StorePcs
     /\ ~(pc[p] = "s_close" /\ serr[p] = "nil")
     /\ \A q \in Procs \ {p} : ~(~crashed[q] /\ pc[q] \in SidecarOpenPcs))
    => lockp' = 0

\* C35 (as one formula).
C35_SidecarRemoved == [][C35_Act]_vars

\* C36: an iteration of LoadAndStore begins with the zero value, no canary and
\* the callback not called; its Store runs after one call of the callback, on
\* the value the callback left of what this iteration's Load gave it, with the
\* canary of this iteration's Load (nil if the Load failed), and what it renames
\* is the encoding of that value; a retry starts the next iteration afresh.
C36_Inv ==
  \A p \in Procs :
    (op[p] = "las" /\ ~crashed[p]) =>
      /\ pc[p] \in {"l_open", "l_rlock", "l_decode"} =>
           val[p] = 0 /\ canary[p] = <<>> /\ cbArg[p] = <<>>
      /\ pc[p] \in {"l_close", "cb"} =>
           cbArg[p] = <<>> /\ (lerr[p] = "nil" <=> canary[p] # <<>>)
      /\ pc[p] \in StorePcs =>
           /\ Len(cbArg[p]) = 1 /\ val[p] = Inc(cbArg[p][1].val)
           /\ lerr[p] = "nil" <=> canary[p] # <<>>
           /\ canary[p] # <<>> => Decode(data[canary[p][1]]).val = cbArg[p][1].val
      /\ pc[p] = "s_rename" => data[fd[p]] = Encode(Inc(cbArg[p][1].val))

C36_Act ==
  \A p \in Procs :
    (op[p] = "las" /\ ~crashed[p] /\ ~crashed'[p] /\ pc[p] \in StorePcs) =>
      /\ pc'[p] \in StorePcs \cup {"idle", "l_open"}
      /\ pc'[p] \in StorePcs => val'[p] = val[p] /\ canary'[p] = canary[p]
                                /\ cbArg'[p] = cbArg[p]
      /\ pc'[p] = "l_open" => val'[p] = 0 /\ canary'[p] = <<>> /\ cbArg'[p] = <<>>

\* C36 (as one formula).
C36_FreshIteration == [](C36_Inv) /\ [][C36_Act]_vars

\* The first caller's LoadAndStore, begun before the other's, is about to
\* rename the callback's value of what the other one stored.
C36_Witness ==
  \E p \in Procs : \E q \in Procs \ {p} :
    /\ p < q /\ op[p] = "las" /\ At(p, "s_rename") /\ renames = 1
    /\ cbArg[p] = <<[val |-> lastStored, err |-> "nil"]>> /\ val[p] = Inc(lastStored)
    /\ canary[p] = <<path>> /\ op[q] = "las" /\ ret[q] = "nil"

\* C37: only TryLock and TryRLock return ErrWouldBlock, and only when the lock
\* could not be granted at once; Lock and RLock never do; a raw lock that fails
\* for another reason makes the call return that very error.
C37_Inv ==
  \A h \in Handles : hres[h] = "WouldBlock" => hop[h] \in TryCalls

C37_Act ==
  \A h \in Handles :
    /\ \A name \in BlockingCalls \cup TryCalls, errno \in RawFailures(goos) :
         (RawFault(h, name, errno) \/ RawFaultUnix(h, name, errno)) => hres'[h] = errno
    /\ ((TryLock(h) \/ TryRLock(h)) /\ hres'[h] = "WouldBlock") =>
         Conflict([held EXCEPT ![h] = PreLock(goos, held[h])], h,
                  IF hop'[h] = "TryLock" THEN "ex" ELSE "sh")
    /\ ((Lock(h) \/ RLock(h) \/ LockGranted(h) \/ LockCanceled(h))
          => hres'[h] # "WouldBlock")

\* C37 (as one formula).
C37_WouldBlockOnlyFromTry == [](C37_Inv) /\ [][C37_Act]_vars

====
